---- MODULE Spec2Model ----
(***************************************************************************)
(* Model of QC.cpp (simtools): the per-sample QC metrics computed from a   *)
(* .sim file.  writeMagnitude is the two-pass probe-normalised magnitude,  *)
(* writeXydiff the single-pass X/Y intensity difference.                   *)
(*                                                                         *)
(* Each loop iteration of the source is one action.  Floating-point values *)
(* are modelled as exact rationals extended with NaN and +/-infinity; the  *)
(* intensities the model draws are small integers whose per-probe sum of   *)
(* squares is a perfect square, so that sqrt is exact on every value the   *)
(* model computes; a probe is either dark (every channel 0) or lit (every  *)
(* channel non-zero).  Rounding of single-precision arithmetic is not      *)
(* modelled.                                                               *)
(***************************************************************************)
EXTENDS Integers, Sequences, FiniteSets, TLC

\* ------------------------------------------------------------------ bounds
MaxProbes == 2

MaxSamples == 2

MaxChannels == 2

MaxRuns == 2

\* largest number of probe-sample cells (numProbes * numSamples) of a drawn
\* dataset
MaxCells == 6

\* raw intensity values a record may hold
Vals == {0, 3, 4}

\* width of the fixed-point intensity type (uint16_t)
UInt16Bits == 16

\* decimal places printed by "%.6f"
Decimals == 6

\* ------------------------------------------------------ float arithmetic
Abs(x) == IF x < 0 THEN -x ELSE x

Sign(x) == IF x < 0 THEN -1 ELSE 1

RECURSIVE GCD(_, _)
GCD(a, b) == IF b = 0 THEN a ELSE GCD(b, a % b)

Pow2(w) == 2 ^ w

\* a finite value n/d in lowest terms, d > 0
Fin(n, d) ==
  LET g == GCD(Abs(n), d)
  IN  [k |-> "fin", n |-> Sign(n) * (Abs(n) \div g), d |-> d \div g]

NaN == [k |-> "nan", n |-> 0, d |-> 1]

Inf(s) == [k |-> "inf", n |-> s, d |-> 1]

FromInt(v) == Fin(v, 1)

Zero == FromInt(0)

IsFinite(a) == a.k = "fin"

FAdd(a, b) ==
  IF a.k = "nan" \/ b.k = "nan" THEN NaN
  ELSE IF a.k = "inf" /\ b.k = "inf" THEN (IF a.n = b.n THEN a ELSE NaN)
  ELSE IF a.k = "inf" THEN a
  ELSE IF b.k = "inf" THEN b
  ELSE Fin(a.n * b.d + b.n * a.d, a.d * b.d)

FNeg(a) == IF a.k = "nan" THEN NaN ELSE [a EXCEPT !.n = -a.n]

FSub(a, b) == FAdd(a, FNeg(b))

FMul(a, b) ==
  IF a.k = "nan" \/ b.k = "nan" THEN NaN
  ELSE IF a.k = "inf" \/ b.k = "inf"
       THEN (IF a.n = 0 \/ b.n = 0 THEN NaN ELSE Inf(Sign(a.n) * Sign(b.n)))
  ELSE Fin(a.n * b.n, a.d * b.d)

\* IEEE division: 0/0 and inf/inf are NaN, x/0 is a signed infinity
FDiv(a, b) ==
  IF a.k = "nan" \/ b.k = "nan" THEN NaN
  ELSE IF a.k = "inf" THEN (IF b.k = "inf" THEN NaN ELSE Inf(a.n * Sign(b.n)))
  ELSE IF b.k = "inf" THEN Zero
  ELSE IF b.n = 0 THEN (IF a.n = 0 THEN NaN ELSE Inf(Sign(a.n)))
  ELSE Fin(a.n * b.d * Sign(b.n), a.d * Abs(b.n))

\* floor of the integer square root
ISqrt(n) == CHOOSE r \in 0..n : r * r <= n /\ (r + 1) * (r + 1) > n

IsSquare(n) == ISqrt(n) * ISqrt(n) = n

FSqrt(a) ==
  IF a.k = "nan" THEN NaN
  ELSE IF a.k = "inf" THEN (IF a.n > 0 THEN a ELSE NaN)
  ELSE IF a.n < 0 THEN NaN
  ELSE Fin(ISqrt(a.n), ISqrt(a.d))

\* ---------------------------------------------------------------- state
VARIABLES
  numProbes,      \* Sim header: probe count
  numChannels,    \* Sim header: channel count
  numSamples,     \* Sim header: declared sample count
  numberFormat,   \* Sim header: 0 = float, otherwise 16-bit fixed point
  records,        \* the records actually present in the file
  cursor,         \* Sim read position: records consumed since the last reset
  pc,             \* position of the running write* method
  metric,         \* which method is running / ran last
  i,              \* loop index of the current loop
  probeMagArray,  \* per-probe accumulator, then the probe baselines
  resultArray,    \* sampleMagArray / xydArray
  sampleNames,    \* names copied out of the records
  outFile,        \* the output stream of the current run
  error,          \* why the process exited, if it did
  runs,           \* completed write* calls on this handle
  ops,            \* operations issued on the Sim in the current run
  readLog,        \* records returned by the Sim since the last reset
  assigns,        \* number of stores into each resultArray entry
  prev            \* results of the last completed run of each metric

hdr == <<numProbes, numChannels, numSamples, numberFormat, records>>

vars == <<numProbes, numChannels, numSamples, numberFormat, records, cursor,
          pc, metric, i, probeMagArray, resultArray, sampleNames, outFile,
          error, runs, ops, readLog, assigns, prev>>

\* ------------------------------------------------- the record source (Sim)
SampleName(k) == <<"S1", "S2", "S3", "S4">>[k]

\* sampleNames[][] is an uninitialised array until strcpy fills an entry
Uninit == "?"

\* sum of the squared raw values of probe p (0-based) over channels 0..j-1
RECURSIVE RawSumSq(_, _, _, _)
RawSumSq(v, p, C, j) ==
  IF j = 0 THEN 0
  ELSE RawSumSq(v, p, C, j - 1) + v[p * C + j] * v[p * C + j]

\* the P*C intensity vectors the model draws for one record
RecordValues(P, C) ==
  {v \in [1..(P * C) -> Vals] :
     \A p \in 0..(P - 1) :
        /\ IsSquare(RawSumSq(v, p, C, C))
        /\ \/ \A j \in 1..C : v[p * C + j] = 0
           \/ \A j \in 1..C : v[p * C + j] # 0}

MakeRecords(f) ==
  [k \in DOMAIN f |-> [name |-> SampleName(k), intensity |-> f[k]]]

\* files declaring N samples: complete, or one record short
Files(P, C, N) ==
  {MakeRecords(f) :
     f \in UNION {[1..len -> RecordValues(P, C)] :
                    len \in {N} \cup (IF N > 0 THEN {N - 1} ELSE {})}}

\* the two-sample dataset of the documented scenario
ExampleRecords ==
  MakeRecords(<< <<3, 4, 0, 0>>, <<0, 0, 6, 8>> >>)

\* Sim::getNextRecord(name, vector<float>*): the values as floats
IntensityFloat(rec) ==
  [x \in DOMAIN rec.intensity |-> FromInt(rec.intensity[x])]

\* Sim::getNextRecord(name, vector<uint16_t>*): the values as 16-bit words
IntensityInt(rec) ==
  [x \in DOMAIN rec.intensity |-> rec.intensity[x] % Pow2(UInt16Bits)]

\* Sim::getNextRecord fails once the file holds no further record
EndOfData == cursor >= Len(records)

\* ------------------------------------------------------ QC computations
\* signal = intensity_float->at(index) / intensity_int->at(index)
\* (index is 0-based as in the source)
Signal(fmt, rec, index) ==
  IF fmt = 0 THEN IntensityFloat(rec)[index + 1]
  ELSE FromInt(IntensityInt(rec)[index + 1])

\* variant: the fixed-point branch adds the signal instead of its square
RECURSIVE Total_LinearFixed(_, _, _, _)
Total_LinearFixed(fmt, rec, p, j) ==
  IF j = 0 THEN Zero
  ELSE LET signal == Signal(fmt, rec, p * numChannels + (j - 1))
       IN  FAdd(Total_LinearFixed(fmt, rec, p, j - 1),
                IF fmt = 0 THEN FMul(signal, signal) ELSE signal)

\* running total of squared intensities of probe p over channels 0..j-1
RECURSIVE Total(_, _, _, _)
Total(fmt, rec, p, j) ==
  IF j = 0 THEN Zero
  ELSE LET signal == Signal(fmt, rec, p * numChannels + (j - 1))
       IN  FAdd(Total(fmt, rec, p, j - 1), FMul(signal, signal))

GetNextMagnitudes(fmt, rec) ==
  [p \in 1..numProbes |-> FSqrt(Total(fmt, rec, p - 1, numChannels))]

\* magByProbe[j] += magnitudes[j]
AddMagnitudes(magByProbe, magnitudes) ==
  [j \in 1..numProbes |-> FAdd(magByProbe[j], magnitudes[j])]

\* variant: the totals are divided by the probe count
MeanByProbe_ByProbes(magByProbe) ==
  [j \in 1..numProbes |-> FDiv(magByProbe[j], FromInt(numProbes))]

\* magByProbe[i] = magByProbe[i] / numSamples
MeanByProbe(magByProbe) ==
  [j \in 1..numProbes |-> FDiv(magByProbe[j], FromInt(numSamples))]

\* variant: a probe whose baseline is zero is skipped
Normalise_SkipZero(m, b) == IF b = Zero THEN Zero ELSE FDiv(m, b)

\* magnitudes[j] / magByProbe[j]
Normalise(m, b) == FDiv(m, b)

\* mag after the first j probes
RECURSIVE MagSum(_, _, _)
MagSum(magnitudes, magByProbe, j) ==
  IF j = 0 THEN Zero
  ELSE FAdd(MagSum(magnitudes, magByProbe, j - 1),
            Normalise(magnitudes[j], magByProbe[j]))

\* magBySample[i] = mag / numProbes
SampleMagnitude(magnitudes, magByProbe) ==
  FDiv(MagSum(magnitudes, magByProbe, numProbes), FromInt(numProbes))

\* variant: the subtraction is done in 16-bit unsigned arithmetic
IntDiff_Unsigned(a, b) == (a - b) % Pow2(UInt16Bits)

\* uint16_t operands are promoted to int before the subtraction
IntDiff(a, b) == a - b

\* xyd of probe j (0-based)
XyDiff(fmt, rec, j) ==
  LET index == j * numChannels
  IN  IF fmt = 0
      THEN FSub(IntensityFloat(rec)[index + 2], IntensityFloat(rec)[index + 1])
      ELSE FromInt(IntDiff(IntensityInt(rec)[index + 2],
                           IntensityInt(rec)[index + 1]))

\* xydTotal after the first j probes
RECURSIVE XydTotal(_, _, _)
XydTotal(fmt, rec, j) ==
  IF j = 0 THEN Zero
  ELSE FAdd(XydTotal(fmt, rec, j - 1), XyDiff(fmt, rec, j - 1))

\* xydBySample[i] = xydTotal / numProbes
SampleXydiff(fmt, rec) ==
  FDiv(XydTotal(fmt, rec, numProbes), FromInt(numProbes))

\* calloc(n, sizeof(float))
Calloc(n) == [x \in 1..n |-> Zero]

\* ------------------------------------------------------------- output
\* first k decimal digits of r/d (0 <= r < d) and the remainder left
RECURSIVE DecDigits(_, _, _)
DecDigits(r, d, k) ==
  IF k = 0 THEN <<0, r>>
  ELSE LET h == DecDigits(r, d, k - 1)
       IN  <<h[1] * 10 + (h[2] * 10) \div d, (h[2] * 10) % d>>

\* the text "%.6f" prints for a float
Printf6(a) ==
  IF a.k # "fin" THEN [text |-> a.k, neg |-> a.n < 0, whole |-> 0, frac |-> 0]
  ELSE LET q  == Abs(a.n) \div a.d
           h  == DecDigits(Abs(a.n) % a.d, a.d, Decimals)
           up == 2 * h[2] > a.d \/ (2 * h[2] = a.d /\ h[1] % 2 = 1)
           f  == IF up THEN h[1] + 1 ELSE h[1]
           c  == f = 10 ^ Decimals
       IN  [text |-> "fin", neg |-> a.n < 0,
            whole |-> IF c THEN q + 1 ELSE q, frac |-> IF c THEN 0 ELSE f]

\* fprintf(outFile, "%s\t%.6f\n", name, value)
OutLine(name, value) == <<name, Printf6(value)>>

NoFile == [state |-> "unopened", lines |-> <<>>]

NoResult == [set |-> FALSE, names |-> <<>>, values |-> <<>>, baselines |-> <<>>]

\* ----------------------------------------------------------------- Init
\* QC::QC: the Sim is opened, the read position is at the first record
InitState ==
  /\ cursor = 0
  /\ pc = "idle"
  /\ metric = "none"
  /\ i = 0
  /\ probeMagArray = <<>>
  /\ resultArray = <<>>
  /\ sampleNames = <<>>
  /\ outFile = NoFile
  /\ error = "none"
  /\ runs = 0
  /\ ops = <<>>
  /\ readLog = <<>>
  /\ assigns = <<>>
  /\ prev = [m \in {"magnitude", "xydiff"} |-> NoResult]

InitBounded ==
  /\ numProbes \in 0..MaxProbes
  /\ numChannels \in 1..MaxChannels
  /\ numSamples \in 0..MaxSamples
  /\ numProbes * numSamples <= MaxCells
  /\ numberFormat \in {0, 1}
  /\ records \in Files(numProbes, numChannels, numSamples)

\* the documented scenario, in either encoding
InitExample ==
  /\ numProbes = 2
  /\ numChannels = 2
  /\ numSamples = 2
  /\ numberFormat \in {0, 1}
  /\ records = ExampleRecords

Init == (InitBounded \/ InitExample) /\ InitState

\* ---------------------------------------------------------- writeMagnitude
\* variant: the loop runs one iteration too many
MoreSamples_OffByOne(n) == n <= numSamples

\* the loop condition i < numSamples of the sample loops
MoreSamples(n) == n < numSamples

\* variant: the entries are stored from the far end of the arrays
Slot_Reversed(n) == numSamples - n

\* element i (0-based) of sampleNames, magBySample, xydBySample
Slot(n) == n + 1

\* lines 66-71: reset, calloc probeMagArray, enter magnitudeByProbe
StartMagnitude ==
  /\ pc = "idle"
  /\ runs < MaxRuns
  /\ metric' = "magnitude"
  /\ cursor' = 0
  /\ ops' = <<"reset">>
  /\ readLog' = <<>>
  /\ probeMagArray' = Calloc(numProbes)
  /\ i' = 0
  /\ outFile' = NoFile
  /\ pc' = "magnitudeByProbe"
  /\ UNCHANGED <<hdr, resultArray, sampleNames, error, runs, assigns, prev>>

\* lines 145-149: one iteration of the pass-1 loop
MagnitudeByProbeStep ==
  /\ pc = "magnitudeByProbe"
  /\ MoreSamples(i)
  /\ ~EndOfData
  /\ LET rec == records[cursor + 1]
     IN  /\ probeMagArray' =
              AddMagnitudes(probeMagArray,
                            GetNextMagnitudes(numberFormat, rec))
         /\ readLog' = Append(readLog, rec)
  /\ cursor' = cursor + 1
  /\ ops' = Append(ops, "read")
  /\ i' = i + 1
  /\ UNCHANGED <<hdr, pc, metric, resultArray, sampleNames, outFile, error,
                 runs, assigns, prev>>

\* lines 158-160 and 72-75: the means, calloc sampleMagArray, declare
\* sampleNames, reset
MagnitudeByProbeDone ==
  /\ pc = "magnitudeByProbe"
  /\ ~MoreSamples(i)
  /\ probeMagArray' = MeanByProbe(probeMagArray)
  /\ resultArray' = Calloc(numSamples)
  /\ assigns' = [x \in 1..numSamples |-> 0]
  /\ sampleNames' = [x \in 1..numSamples |-> Uninit]
  /\ cursor' = 0
  /\ ops' = Append(ops, "reset")
  /\ readLog' = <<>>
  /\ i' = 0
  /\ pc' = "magnitudeBySample"
  /\ UNCHANGED <<hdr, metric, outFile, error, runs, prev>>

\* lines 173-182: one iteration of the pass-2 loop
MagnitudeBySampleStep ==
  /\ pc = "magnitudeBySample"
  /\ MoreSamples(i)
  /\ ~EndOfData
  /\ LET rec == records[cursor + 1]
     IN  /\ sampleNames' = [sampleNames EXCEPT ![Slot(i)] = rec.name]
         /\ resultArray' =
              [resultArray EXCEPT ![Slot(i)] =
                 SampleMagnitude(GetNextMagnitudes(numberFormat, rec),
                                 probeMagArray)]
         /\ readLog' = Append(readLog, rec)
  /\ assigns' = [assigns EXCEPT ![Slot(i)] = @ + 1]
  /\ cursor' = cursor + 1
  /\ ops' = Append(ops, "read")
  /\ i' = i + 1
  /\ UNCHANGED <<hdr, pc, metric, probeMagArray, outFile, error, runs, prev>>

\* line 190: the pass-2 loop ends, back in writeMagnitude before fopen
MagnitudeBySampleDone ==
  /\ pc = "magnitudeBySample"
  /\ ~MoreSamples(i)
  /\ pc' = "fopen"
  /\ UNCHANGED <<hdr, cursor, metric, i, probeMagArray, resultArray,
                 sampleNames, outFile, error, runs, ops, readLog, assigns,
                 prev>>

\* ------------------------------------------------------------- writeXydiff
\* line 91: the channel-count precondition
TwoChannels == numChannels = 2

\* variant: the channel count is only checked after the reset
XydiffChannelError_AfterReset ==
  /\ pc = "idle"
  /\ runs < MaxRuns
  /\ ~TwoChannels
  /\ metric' = "xydiff"
  /\ error' = "channels"
  /\ pc' = "exit"
  /\ cursor' = 0
  /\ ops' = <<"reset">>
  /\ readLog' = <<>>
  /\ outFile' = NoFile
  /\ UNCHANGED <<hdr, i, probeMagArray, resultArray, sampleNames,
                 runs, assigns, prev>>

\* lines 91-95: exit(1) when the channel count is not 2
XydiffChannelError ==
  /\ pc = "idle"
  /\ runs < MaxRuns
  /\ ~TwoChannels
  /\ metric' = "xydiff"
  /\ error' = "channels"
  /\ pc' = "exit"
  /\ ops' = <<>>
  /\ outFile' = NoFile
  /\ UNCHANGED <<hdr, cursor, i, probeMagArray, resultArray, sampleNames,
                 runs, readLog, assigns, prev>>

\* variant: writeXydiff does not rewind the Sim
StartXydiff_NoReset ==
  /\ pc = "idle"
  /\ runs < MaxRuns
  /\ TwoChannels
  /\ metric' = "xydiff"
  /\ ops' = <<>>
  /\ readLog' = <<>>
  /\ resultArray' = Calloc(numSamples)
  /\ assigns' = [x \in 1..numSamples |-> 0]
  /\ sampleNames' = [x \in 1..numSamples |-> Uninit]
  /\ i' = 0
  /\ outFile' = NoFile
  /\ pc' = "xydiffBySample"
  /\ UNCHANGED <<hdr, cursor, probeMagArray, error, runs, prev>>

\* lines 96-101: reset, calloc xydArray, declare sampleNames
StartXydiff ==
  /\ pc = "idle"
  /\ runs < MaxRuns
  /\ TwoChannels
  /\ metric' = "xydiff"
  /\ cursor' = 0
  /\ ops' = <<"reset">>
  /\ readLog' = <<>>
  /\ resultArray' = Calloc(numSamples)
  /\ assigns' = [x \in 1..numSamples |-> 0]
  /\ sampleNames' = [x \in 1..numSamples |-> Uninit]
  /\ i' = 0
  /\ outFile' = NoFile
  /\ pc' = "xydiffBySample"
  /\ UNCHANGED <<hdr, probeMagArray, error, runs, prev>>

\* lines 198-224: one iteration of the xydiff loop
XydiffBySampleStep ==
  /\ pc = "xydiffBySample"
  /\ MoreSamples(i)
  /\ ~EndOfData
  /\ LET rec == records[cursor + 1]
     IN  /\ sampleNames' = [sampleNames EXCEPT ![Slot(i)] = rec.name]
         /\ resultArray' =
              [resultArray EXCEPT ![Slot(i)] = SampleXydiff(numberFormat, rec)]
         /\ readLog' = Append(readLog, rec)
  /\ assigns' = [assigns EXCEPT ![Slot(i)] = @ + 1]
  /\ cursor' = cursor + 1
  /\ ops' = Append(ops, "read")
  /\ i' = i + 1
  /\ UNCHANGED <<hdr, pc, metric, probeMagArray, outFile, error, runs, prev>>

\* line 224: the loop ends, back in writeXydiff before fopen
XydiffBySampleDone ==
  /\ pc = "xydiffBySample"
  /\ ~MoreSamples(i)
  /\ pc' = "fopen"
  /\ UNCHANGED <<hdr, cursor, metric, i, probeMagArray, resultArray,
                 sampleNames, outFile, error, runs, ops, readLog, assigns,
                 prev>>

\* ------------------------------------------------------ failure and output
\* variant: the failure is swallowed and the run goes on to write
ReadPastEnd_Swallowed ==
  /\ pc \in {"magnitudeByProbe", "magnitudeBySample", "xydiffBySample"}
  /\ MoreSamples(i)
  /\ EndOfData
  /\ ops' = Append(ops, "eof")
  /\ error' = "eof"
  /\ pc' = "fopen"
  /\ UNCHANGED <<hdr, cursor, metric, i, probeMagArray, resultArray,
                 sampleNames, outFile, runs, readLog, assigns, prev>>

\* getNextRecord fails inside one of the three loops; nothing in QC catches
\* the failure, so the run is abandoned
ReadPastEnd ==
  /\ pc \in {"magnitudeByProbe", "magnitudeBySample", "xydiffBySample"}
  /\ MoreSamples(i)
  /\ EndOfData
  /\ ops' = Append(ops, "eof")
  /\ error' = "eof"
  /\ pc' = "exit"
  /\ UNCHANGED <<hdr, cursor, metric, i, probeMagArray, resultArray,
                 sampleNames, outFile, runs, readLog, assigns, prev>>

\* lines 78 / 103: fopen(outPath, "w")
OpenOutput ==
  /\ pc = "fopen"
  /\ outFile' = [state |-> "open", lines |-> <<>>]
  /\ i' = 0
  /\ pc' = "fprintf"
  /\ UNCHANGED <<hdr, cursor, metric, probeMagArray, resultArray, sampleNames,
                 error, runs, ops, readLog, assigns, prev>>

\* lines 79-82 / 104-107: one fprintf
WriteLine ==
  /\ pc = "fprintf"
  /\ MoreSamples(i)
  /\ outFile' = [outFile EXCEPT
                   !.lines = Append(@, OutLine(sampleNames[Slot(i)],
                                               resultArray[Slot(i)]))]
  /\ i' = i + 1
  /\ UNCHANGED <<hdr, cursor, pc, metric, probeMagArray, resultArray,
                 sampleNames, error, runs, ops, readLog, assigns, prev>>

\* lines 83-87 / 109-110: fclose and return to the caller
CloseOutput ==
  /\ pc = "fprintf"
  /\ ~MoreSamples(i)
  /\ outFile' = [outFile EXCEPT !.state = "closed"]
  /\ prev' = [prev EXCEPT ![metric] =
                 [set |-> TRUE, names |-> sampleNames, values |-> resultArray,
                  baselines |-> IF metric = "magnitude" THEN probeMagArray
                                ELSE <<>>]]
  /\ runs' = runs + 1
  /\ pc' = "idle"
  /\ UNCHANGED <<hdr, cursor, metric, i, probeMagArray, resultArray,
                 sampleNames, error, ops, readLog, assigns>>

Next ==
  \/ StartMagnitude
  \/ MagnitudeByProbeStep
  \/ MagnitudeByProbeDone
  \/ MagnitudeBySampleStep
  \/ MagnitudeBySampleDone
  \/ XydiffChannelError
  \/ StartXydiff
  \/ XydiffBySampleStep
  \/ XydiffBySampleDone
  \/ ReadPastEnd
  \/ OpenOutput
  \/ WriteLine
  \/ CloseOutput

Spec == Init /\ [][Next]_vars

TypeOK ==
  /\ pc \in {"idle", "magnitudeByProbe", "magnitudeBySample",
              "xydiffBySample", "fopen", "fprintf", "exit"}
  /\ cursor \in 0..Len(records)
  /\ i \in 0..numSamples

\* ------------------------------------------------------------ properties
\* the file holds exactly the declared number of records
Complete == Len(records) = numSamples

\* every pass of the current run has ended normally
PassesDone ==
  \/ pc \in {"fopen", "fprintf"}
  \/ pc = "idle" /\ metric # "none"

IsPrefix(a, b) == Len(a) <= Len(b) /\ a = SubSeq(b, 1, Len(a))

Reads(n) == [x \in 1..n |-> "read"]

MagnitudeOps ==
  <<"reset">> \o Reads(numSamples) \o <<"reset">> \o Reads(numSamples)

XydiffOps == <<"reset">> \o Reads(numSamples)

RequiredOps == IF metric = "magnitude" THEN MagnitudeOps ELSE XydiffOps

\* C1: on a file holding its N declared records, a writeMagnitude run issues
\* reset, N reads, reset, N reads and nothing else: the log of the run is
\* always a prefix of that sequence and equals it once the passes are over,
\* and within a pass the read position equals the loop index (0 at the start
\* of each pass, never beyond N).
C1_TwoPassSequence ==
  (metric = "magnitude" /\ Complete) =>
    /\ IsPrefix(ops, MagnitudeOps)
    /\ PassesDone => ops = MagnitudeOps
    /\ pc \in {"magnitudeByProbe", "magnitudeBySample"} =>
         cursor = i /\ i <= numSamples

\* a second writeMagnitude run, started with the read position at N > 0
C1_Witness ==
  /\ metric = "magnitude" /\ Complete /\ numSamples = MaxSamples
  /\ prev["magnitude"].set /\ pc = "fopen" /\ ops = MagnitudeOps

\* C2: a writeXydiff call on a dataset whose channel count is not 2 exits
\* with the channel error at once: no reset, no read, the read position and
\* the output are left as they were.
C2_ChannelErrorStep ==
  (pc = "idle" /\ ~TwoChannels /\ metric' = "xydiff") =>
    /\ pc' = "exit" /\ error' = "channels"
    /\ cursor' = cursor /\ readLog' = readLog
    /\ ops' = <<>> /\ outFile' = NoFile

C2_ChannelError ==
  /\ [][C2_ChannelErrorStep]_vars
  /\ [](error = "channels" =>
          pc = "exit" /\ ops = <<>> /\ outFile = NoFile)

\* writeXydiff refused after a magnitude run left the read position at N
C2_Witness ==
  /\ error = "channels" /\ metric = "xydiff" /\ runs = 1
  /\ numSamples > 0 /\ cursor = numSamples

\* C3: with zero probes or zero samples no output file is ever opened.
C3_DegenerateNoOutput ==
  (numProbes = 0 \/ numSamples = 0) => outFile.state = "unopened"

\* the metric the current run computes from one record
MetricOf(rec) ==
  IF metric = "magnitude"
  THEN SampleMagnitude(GetNextMagnitudes(numberFormat, rec), probeMagArray)
  ELSE SampleXydiff(numberFormat, rec)

\* C4: once the passes are over the result holds exactly N entries, entry k
\* being the name of the k-th record read since the last reset paired with
\* the metric of that record, each entry stored exactly once; the lines
\* written so far are those entries in the same order, and all N of them
\* once the file is closed.
C4_ResultOrder ==
  PassesDone =>
    /\ Len(readLog) = numSamples
    /\ Len(sampleNames) = numSamples
    /\ Len(resultArray) = numSamples
    /\ \A k \in 1..numSamples :
         /\ sampleNames[k] = readLog[k].name
         /\ resultArray[k] = MetricOf(readLog[k])
         /\ assigns[k] = 1
    /\ outFile.state # "unopened" =>
         /\ Len(outFile.lines) = (IF pc = "fprintf" THEN i ELSE numSamples)
         /\ \A k \in 1..Len(outFile.lines) :
              outFile.lines[k] =
                OutLine(readLog[k].name, MetricOf(readLog[k]))

C4_Witness ==
  /\ pc = "idle" /\ outFile.state = "closed" /\ numSamples = MaxSamples
  /\ numProbes > 0 /\ Len(outFile.lines) = numSamples
  /\ resultArray[1] # resultArray[2]

\* the magnitude of probe p (1-based) in the s-th record of the file
M(s, p) ==
  FSqrt(FromInt(RawSumSq(records[s].intensity, p - 1, numChannels,
                         numChannels)))

\* sum of M(t, p) over the first n records
RECURSIVE SumM(_, _)
SumM(p, n) == IF n = 0 THEN Zero ELSE FAdd(SumM(p, n - 1), M(n, p))

\* B[p]: the mean of M(t, p) over all samples
B(p) == FDiv(SumM(p, numSamples), FromInt(numSamples))

\* sum of M(s, q) / B[q] over the first p probes
RECURSIVE SumNorm(_, _)
SumNorm(s, p) ==
  IF p = 0 THEN Zero ELSE FAdd(SumNorm(s, p - 1), FDiv(M(s, p), B(p)))

ClosedMagnitude(s) == FDiv(SumNorm(s, numProbes), FromInt(numProbes))

\* C5: with N >= 1, P >= 1 and every baseline non-zero, the baselines are
\* B[p] and the magnitude of sample s is (1/P) * sum over p of M(s,p)/B[p];
\* on the documented two-sample dataset the baselines are 2.5 and 5 and both
\* magnitudes are 1.
C5_MagnitudeFormula ==
  (/\ metric = "magnitude" /\ PassesDone /\ Complete
   /\ numSamples >= 1 /\ numProbes >= 1
   /\ \A p \in 1..numProbes : B(p) # Zero) =>
    /\ \A p \in 1..numProbes : probeMagArray[p] = B(p)
    /\ \A s \in 1..numSamples : resultArray[s] = ClosedMagnitude(s)
    /\ (records = ExampleRecords /\ numChannels = 2) =>
         /\ probeMagArray = <<Fin(5, 2), FromInt(5)>>
         /\ resultArray = <<FromInt(1), FromInt(1)>>

C5_Witness ==
  /\ metric = "magnitude" /\ pc = "idle" /\ records = ExampleRecords
  /\ numChannels = 2 /\ numberFormat = 1
  /\ resultArray = <<FromInt(1), FromInt(1)>>

\* sum of channel 1 minus channel 0 over the first p probes of record s
RECURSIVE SumDiff(_, _)
SumDiff(s, p) ==
  IF p = 0 THEN 0
  ELSE SumDiff(s, p - 1)
       + records[s].intensity[(p - 1) * 2 + 2]
       - records[s].intensity[(p - 1) * 2 + 1]

ClosedXydiff(s) == Fin(SumDiff(s, numProbes), numProbes)

\* C6: on a two-channel dataset with P >= 1 the xydiff of sample s is the
\* signed mean over the probes of channel 1 minus channel 0, in both
\* encodings; on the documented dataset the results are 0.5 and 1.
C6_XydiffFormula ==
  (metric = "xydiff" /\ PassesDone /\ Complete /\ numProbes >= 1) =>
    /\ \A s \in 1..numSamples : resultArray[s] = ClosedXydiff(s)
    /\ records = ExampleRecords => resultArray = <<Fin(1, 2), FromInt(1)>>

\* a negative xydiff computed from the unsigned fixed-point encoding
C6_Witness ==
  /\ metric = "xydiff" /\ pc = "idle" /\ numberFormat = 1
  /\ numSamples >= 1 /\ resultArray[1].k = "fin" /\ resultArray[1].n < 0

\* the accumulator after pass 1 has read the first n records, starting from
\* a fresh accumulator and the first record
RECURSIVE FreshSums(_, _)
FreshSums(fmt, n) ==
  IF n = 0 THEN Calloc(numProbes)
  ELSE AddMagnitudes(FreshSums(fmt, n - 1),
                     GetNextMagnitudes(fmt, records[n]))

FreshBaselines(fmt) == MeanByProbe(FreshSums(fmt, numSamples))

\* what the first run on a newly opened handle computes
FreshValues(m, fmt) ==
  IF m = "magnitude"
  THEN [s \in 1..numSamples |->
          SampleMagnitude(GetNextMagnitudes(fmt, records[s]),
                          FreshBaselines(fmt))]
  ELSE [s \in 1..numSamples |-> SampleXydiff(fmt, records[s])]

FreshNames == [s \in 1..numSamples |-> records[s].name]

\* C7: on a complete two-channel dataset every run of a sequence of runs
\* ends without error, and its names, values and baselines are those of a
\* first run on a new handle and those of the previous run of the same
\* metric on this handle.
C7_RunIndependence ==
  (Complete /\ TwoChannels) =>
    /\ error = "none"
    /\ PassesDone =>
         /\ sampleNames = FreshNames
         /\ resultArray = FreshValues(metric, numberFormat)
         /\ metric = "magnitude" =>
              probeMagArray = FreshBaselines(numberFormat)
         /\ prev[metric].set =>
              /\ prev[metric].names = sampleNames
              /\ prev[metric].values = resultArray
              /\ metric = "magnitude" =>
                   prev[metric].baselines = probeMagArray

\* a run that follows one run of each metric on the same handle
C7_Witness ==
  /\ Complete /\ TwoChannels /\ numSamples >= 2 /\ numProbes >= 1
  /\ pc = "fopen" /\ runs >= 1
  /\ prev[metric].set
  /\ \E s \in 1..numSamples : resultArray[s] # Zero

\* C8: the values, the baselines and the written lines of a run are those
\* the other encoding of the same dataset yields, and the operations issued
\* on the source do not depend on the encoding.
C8_EncodingAgnostic ==
  (Complete /\ PassesDone) =>
    /\ resultArray = FreshValues(metric, 1 - numberFormat)
    /\ metric = "magnitude" =>
         probeMagArray = FreshBaselines(1 - numberFormat)
    /\ ops = RequiredOps
    /\ \A k \in 1..Len(outFile.lines) :
         outFile.lines[k] =
           OutLine(records[k].name,
                   FreshValues(metric, 1 - numberFormat)[k])

C8_Witness ==
  /\ Complete /\ pc = "idle" /\ metric = "magnitude" /\ numberFormat = 1
  /\ numChannels = 2 /\ numProbes = MaxProbes /\ numSamples = MaxSamples
  /\ Len(outFile.lines) = numSamples
  /\ \A s \in 1..numSamples : IsFinite(resultArray[s])

C10_ZeroBaseline ==
  (/\ metric = "magnitude" /\ PassesDone /\ Complete
   /\ numSamples >= 1 /\ numProbes >= 1
   /\ \E p \in 1..numProbes : B(p) = Zero) =>
    /\ ops = MagnitudeOps
    /\ Len(resultArray) = numSamples
    /\ \A s \in 1..numSamples : ~IsFinite(resultArray[s])
    /\ pc = "idle" => Len(outFile.lines) = numSamples
    /\ \A k \in 1..Len(outFile.lines) : outFile.lines[k][2].text # "fin"

\* one probe has a zero baseline, another does not
C10_Witness ==
  /\ metric = "magnitude" /\ pc = "idle" /\ Complete
  /\ numSamples >= 2 /\ numProbes >= 2
  /\ B(1) = Zero /\ B(2) # Zero
  /\ Len(outFile.lines) = numSamples
  /\ outFile.lines[1][2].text = "nan"

====
